---- MODULE Spec2Model ----
(***************************************************************************)
(* The endpoint middleware pipeline of the Preamble service:               *)
(*   - pkg/gnodeb/endpoints/endpoints.go : New, MakePreambleEndpoint       *)
(*   - pkg/gnodeb/service/service.go     : New, stubPreamblesvcService     *)
(*   - pkg/gnodeb/service/logging.go     : loggingMiddleware,              *)
(*                                         NewGRPCClient, grpcEncodeError  *)
(* The rate limiter (golang.org/x/time/rate behind go-kit's                *)
(* ratelimit.NewErroringLimiter) and the circuit breaker (sony/gobreaker   *)
(* behind go-kit's circuitbreaker.Gobreaker) are modelled at the place     *)
(* the repository constructs them, with the settings it passes.            *)
(* Time is counted in refill intervals of the limiter (one second).        *)
(***************************************************************************)
EXTENDS Integers, Sequences, FiniteSets, TLC

VARIABLES
    pipeline,   \* "server" (endpoints.New), "client" (NewGRPCClient), "conc" or "encode"
    svcImpl,    \* the PreamblesvcService handed to endpoints.New
    tokens,     \* tokens in the pipeline's rate.Limiter
    cbs,        \* operation -> gobreaker.CircuitBreaker of that operation's endpoint
    last,       \* what the last call did (cleared when time passes)
    run,        \* limiter decisions since the bucket was last full
    failRun,    \* consecutive failures of the Service handed to endpoints.New
    ccb,        \* the breaker of the concurrent scenario
    callers,    \* caller -> position of its call inside the breaker middleware
    obs,        \* what the concurrent scenario has seen so far
    encIn,      \* the error handed to grpcEncodeError
    encOut,     \* grpcEncodeError(encIn)
    encTwice,   \* grpcEncodeError(grpcEncodeError(encIn))
    encPc       \* how many times grpcEncodeError has been applied

pipeVars == <<pipeline, svcImpl, tokens, cbs, last, run, failRun>>
concVars == <<ccb, callers, obs>>
encVars == <<encIn, encOut, encTwice, encPc>>
vars == <<pipeline, svcImpl, tokens, cbs, last, run, failRun, ccb, callers, obs,
          encIn, encOut, encTwice, encPc>>

----------------------------------------------------------------------------
(* Bounds of the model *)

MaxMsg == 1          \* messages are 0..MaxMsg
CountCap == 2        \* Counts.Requests / ConsecutiveSuccesses saturate here
NumCallers == 3      \* concurrent callers of the concurrent scenario
FailCap == 8         \* the scenario's count of seen failures saturates here
NumMessages == 2     \* distinct status messages of the error domain
ClientStep == 10     \* seconds that pass in one step of the client's clock

Msgs == 0..MaxMsg
Min(a, b) == IF a < b THEN a ELSE b
Max(a, b) == IF a > b THEN a ELSE b

----------------------------------------------------------------------------
(* Errors *)

Nil == "nil"
ErrLimited == "ErrLimited"                 \* ratelimit.ErrLimited
ErrOpenState == "ErrOpenState"             \* gobreaker.ErrOpenState
ErrTooManyRequests == "ErrTooManyRequests" \* gobreaker.ErrTooManyRequests
ErrBusiness == "ErrBusiness"               \* an error returned by a Service
ErrRemote == "ErrRemote"                   \* an error returned by the remote call
Rejections == {ErrLimited, ErrOpenState, ErrTooManyRequests}

----------------------------------------------------------------------------
(* Rate limiter: rate.NewLimiter(rate.Every(time.Second), 100) *)

Burst == 100
RefillInterval == 1     \* seconds per token: rate.Every(time.Second)

\* rate.Limiter.Allow: a token is taken when one is there
Allow(t) == t >= 1

\* the bucket after d seconds
Refill(t, d) == Min(Burst, t + (d \div RefillInterval))

----------------------------------------------------------------------------
(* Circuit breaker: gobreaker.NewCircuitBreaker(Settings) *)

StateClosed == "closed"
StateHalfOpen == "half-open"
StateOpen == "open"
NoExpiry == <<>>                   \* the zero time.Time; <<d>> is now + d

DefaultMaxRequests == 1            \* Settings.MaxRequests = 0
DefaultTimeout == 60               \* Settings.Timeout = 0
DefaultConsecutiveFailures == 5    \* Settings.ReadyToTrip = nil
ClientTimeout == 30

\* settings that would let two trial calls through
ServerSettingsTwoTrials == [MaxRequests |-> 2, Interval |-> 0, Timeout |-> 0]
\* gobreaker.Settings{} of endpoints.New
ServerSettings == [MaxRequests |-> 0, Interval |-> 0, Timeout |-> 0]
\* gobreaker.Settings{Name: ..., Timeout: 30 * time.Second} of NewGRPCClient
ClientSettings == [MaxRequests |-> 0, Interval |-> 0, Timeout |-> ClientTimeout]

ZeroCounts == [Requests |-> 0, ConsecutiveSuccesses |-> 0, ConsecutiveFailures |-> 0]

Bump(n) == IF n < CountCap THEN n + 1 ELSE n

\* the default ReadyToTrip: more than 5 consecutive failures
ReadyToTrip(counts) == counts.ConsecutiveFailures > DefaultConsecutiveFailures

\* the number of consecutive failures at which the breaker trips
TripCount == DefaultConsecutiveFailures + 1

\* expiry is kept relative to now: expiry.Before(now) <=> expiry < 0
Expired(cb) == cb.expiry # NoExpiry /\ cb.expiry[1] < 0

toNewGeneration(cb) ==
    [cb EXCEPT !.generation = @ + 1,
               !.counts = ZeroCounts,
               !.expiry = CASE cb.state = StateClosed ->
                                 IF cb.interval = 0 THEN NoExpiry ELSE <<cb.interval>>
                            [] cb.state = StateOpen -> <<cb.timeout>>
                            [] OTHER -> NoExpiry]

setState(cb, state) ==
    IF cb.state = state THEN cb
    ELSE toNewGeneration([cb EXCEPT !.state = state])

currentState(cb) ==
    CASE cb.state = StateClosed -> IF Expired(cb) THEN toNewGeneration(cb) ELSE cb
      [] cb.state = StateOpen -> IF Expired(cb) THEN setState(cb, StateHalfOpen) ELSE cb
      [] OTHER -> cb

NewCircuitBreaker(st) ==
    toNewGeneration(
        [state |-> StateClosed, generation |-> 0, counts |-> ZeroCounts,
         expiry |-> NoExpiry,
         maxRequests |-> IF st.MaxRequests = 0 THEN DefaultMaxRequests ELSE st.MaxRequests,
         interval |-> IF st.Interval <= 0 THEN 0 ELSE st.Interval,
         timeout |-> IF st.Timeout <= 0 THEN DefaultTimeout ELSE st.Timeout])

\* beforeRequest: [cb, generation, err]
beforeRequest(cb0) ==
    LET cb == currentState(cb0) IN
    IF cb.state = StateOpen
    THEN [cb |-> cb, generation |-> cb.generation, err |-> ErrOpenState]
    ELSE IF cb.state = StateHalfOpen /\ cb.counts.Requests >= cb.maxRequests
    THEN [cb |-> cb, generation |-> cb.generation, err |-> ErrTooManyRequests]
    ELSE [cb |-> [cb EXCEPT !.counts.Requests = Bump(@)],
          generation |-> cb.generation, err |-> Nil]

onSuccess(cb) ==
    LET c == [cb EXCEPT !.counts.ConsecutiveSuccesses = Bump(@),
                        !.counts.ConsecutiveFailures = 0] IN
    CASE cb.state = StateClosed -> c
      [] cb.state = StateHalfOpen ->
            IF c.counts.ConsecutiveSuccesses >= c.maxRequests
            THEN setState(c, StateClosed) ELSE c
      [] OTHER -> cb

\* onFailure losing the third increment of the failure counter
onFailureLostUpdate(cb) ==
    CASE cb.state = StateClosed ->
            LET c == [cb EXCEPT !.counts.ConsecutiveFailures =
                                    IF @ = 2 THEN @ ELSE @ + 1,
                                !.counts.ConsecutiveSuccesses = 0] IN
            IF ReadyToTrip(c.counts) THEN setState(c, StateOpen) ELSE c
      [] cb.state = StateHalfOpen -> setState(cb, StateOpen)
      [] OTHER -> cb

\* onFailure: a failure while Closed is counted and may trip the breaker; a
\* failed trial opens it again
onFailure(cb) ==
    CASE cb.state = StateClosed ->
            LET c == [cb EXCEPT !.counts.ConsecutiveFailures = @ + 1,
                                !.counts.ConsecutiveSuccesses = 0] IN
            IF ReadyToTrip(c.counts) THEN setState(c, StateOpen) ELSE c
      [] cb.state = StateHalfOpen -> setState(cb, StateOpen)
      [] OTHER -> cb

\* afterRequest(before, success): a result of an older generation is dropped
afterRequest(cb0, before, success) ==
    LET cb == currentState(cb0) IN
    IF cb.generation # before THEN cb
    ELSE IF success THEN onSuccess(cb) ELSE onFailure(cb)

\* generations are only compared for equality: a breaker at rest is kept at
\* generation 0, and a call in flight remembers whether its generation is
\* still the current one (0) or an older one (-1)
Rebase(cb) == [cb EXCEPT !.generation = 0]

\* d seconds pass (an expiry in the past is kept as -1)
Elapse(cb, d) ==
    IF cb.expiry = NoExpiry THEN cb ELSE [cb EXCEPT !.expiry = <<Max(@[1] - d, -1)>>]

----------------------------------------------------------------------------
(* Wire errors: grpcEncodeError, with status.FromError and status.Error *)

Codes == {"OK", "Canceled", "Unknown", "InvalidArgument", "DeadlineExceeded",
          "NotFound", "AlreadyExists", "PermissionDenied", "ResourceExhausted",
          "FailedPrecondition", "Aborted", "OutOfRange", "Unimplemented",
          "Internal", "Unavailable", "DataLoss", "Unauthenticated"}
InternalMessage == "internal server error"
Messages == {InternalMessage} \cup {"message " \o ToString(i) : i \in 1..NumMessages}

NilError == [kind |-> "nil"]
PlainError(m) == [kind |-> "plain", msg |-> m]
\* an error made by the status package; details are the status' attached details
StatusError(c, m, d) == [kind |-> "status", code |-> c, msg |-> m, details |-> d]

Errors ==
    {NilError} \cup {PlainError(m) : m \in Messages}
    \cup {StatusError(c, m, d) : c \in Codes \ {"OK"}, m \in Messages, d \in BOOLEAN}

\* status.FromError: the status an error carries, and whether it carries one
FromError(e) ==
    CASE e.kind = "nil" -> [ok |-> TRUE, code |-> "OK", msg |-> ""]
      [] e.kind = "status" -> [ok |-> TRUE, code |-> e.code, msg |-> e.msg]
      [] OTHER -> [ok |-> FALSE, code |-> "Unknown", msg |-> e.msg]

\* status.Error(c, msg): a fresh status without details; nil for codes.OK
Error(c, m) == IF c = "OK" THEN NilError ELSE StatusError(c, m, FALSE)

\* grpcEncodeError passing on whatever status.FromError returns
grpcEncodeErrorLeaky(err) ==
    IF err = NilError THEN NilError
    ELSE LET st == FromError(err) IN Error(st.code, st.msg)

grpcEncodeError(err) ==
    IF err = NilError THEN NilError
    ELSE LET st == FromError(err) IN
         IF st.ok THEN Error(st.code, st.msg)
         ELSE Error("Internal", InternalMessage)

\* what status.Code and status.Convert(e).Message() read off an error
CodeOf(e) == FromError(e).code
MessageOf(e) == FromError(e).msg

----------------------------------------------------------------------------
(* Endpoints and middlewares.  A call is evaluated on a record x:          *)
(*   tokens, cb   the limiter and the breaker the call goes through        *)
(*   svc, msg, outcome   the Service, the request and what a Service that  *)
(*                can fail (or the remote end) answers                     *)
(*   err, resp    the endpoint's two return values                         *)
(*   trail        the layers entered, in order                             *)
(*   logs, spans  the log entries and trace spans emitted, in order        *)
(*   invoked      the business logic (or the remote end) was called        *)
(***************************************************************************)

SvcNew == "service.New"     \* LoggingMiddleware(logger)(&stubPreamblesvcService{})
SvcOther == "other"         \* another PreamblesvcService, which may fail
Ok == "ok"
Fail == "fail"

Entered(x, layer) == [x EXCEPT !.trail = Append(@, layer)]

\* PreambleRequest.validate
validate(msg) == Nil

\* stubPreamblesvcService.Preamble: return msg, err (err is never set)
stubPreamble(x) ==
    [Entered(x, "stub") EXCEPT !.rs = x.msg, !.err = Nil, !.invoked = TRUE]

\* service.loggingMiddleware.Preamble: one entry per call, whatever the error
\* (the source passes (ctx, a, b) to next; the message is what is meant)
loggingMiddlewarePreamble(x) ==
    LET r == stubPreamble(Entered(x, "service.logging")) IN
    [r EXCEPT !.logs = Append(@, <<"service.logging", r.err>>)]

\* a PreamblesvcService other than the one service.New builds
otherPreamble(x) ==
    LET y == Entered(x, "other") IN
    IF x.outcome = Ok
    THEN [y EXCEPT !.rs = x.msg, !.err = Nil, !.invoked = TRUE]
    ELSE [y EXCEPT !.rs = 0, !.err = ErrBusiness, !.invoked = TRUE]

svcPreamble(x) ==
    IF x.svc = SvcNew THEN loggingMiddlewarePreamble(x) ELSE otherPreamble(x)

\* MakePreambleEndpoint: PreambleResponse{} or PreambleResponse{Rs: rs}; the
\* error travels in the second return value
MakePreambleEndpoint(x) ==
    LET verr == validate(x.msg) IN
    IF verr # Nil
    THEN [x EXCEPT !.resp = [Rs |-> 0, Err |-> Nil], !.err = verr]
    ELSE LET r == svcPreamble(x) IN
         [r EXCEPT !.resp = [Rs |-> r.rs, Err |-> Nil]]

\* grpctransport.NewClient(...).Endpoint(): the call to the remote end, and
\* decodeGRPCPreambleResponse / decodeGRPCConcatResponse on its reply
ClientEndpoint(x) ==
    IF x.outcome = Ok
    THEN [x EXCEPT !.rs = x.msg, !.resp = [Rs |-> x.msg, Err |-> Nil],
                   !.err = Nil, !.invoked = TRUE]
    ELSE [x EXCEPT !.err = ErrRemote, !.invoked = TRUE]

RECURSIVE Invoke(_, _, _)

\* a limiter that keeps the last token back
ErroringLimiterOffByOne(chain, k, x) ==
    IF ~(x.tokens > 1) THEN [x EXCEPT !.err = ErrLimited]
    ELSE Invoke(chain, k - 1, [x EXCEPT !.tokens = @ - 1])

\* ratelimit.NewErroringLimiter(limit)(next)
ErroringLimiter(chain, k, x) ==
    IF ~Allow(x.tokens) THEN [x EXCEPT !.err = ErrLimited]
    ELSE Invoke(chain, k - 1, [x EXCEPT !.tokens = @ - 1])

\* circuitbreaker.Gobreaker(cb)(next): cb.Execute(next)
Gobreaker(chain, k, x) ==
    LET b == beforeRequest(x.cb) IN
    IF b.err # Nil THEN [x EXCEPT !.cb = b.cb, !.err = b.err]
    ELSE LET r == Invoke(chain, k - 1, [x EXCEPT !.cb = b.cb]) IN
         [r EXCEPT !.cb = afterRequest(r.cb, b.generation, r.err = Nil)]

\* opentracing.TraceServer / TraceClient, zipkin.TraceEndpoint: a span around next
Trace(chain, k, x) ==
    LET r == Invoke(chain, k - 1, x) IN
    [r EXCEPT !.spans = Append(@, <<chain[k], r.err>>)]

\* endpoints.LoggingMiddleware(logger)(next): one entry per call, after next
EndpointLogging(chain, k, x) ==
    LET r == Invoke(chain, k - 1, x) IN
    [r EXCEPT !.logs = Append(@, <<"logging", r.err>>)]

Tracers == {"opentracing", "zipkin"}

\* chain[k] wraps chain[k-1]; chain[1] is the bare endpoint
Invoke(chain, k, x) ==
    LET layer == chain[k]
        y == Entered(x, layer)
    IN CASE layer = "endpoint" -> MakePreambleEndpoint(y)
         [] layer = "client" -> ClientEndpoint(y)
         [] layer = "limiter" -> ErroringLimiter(chain, k, y)
         [] layer = "breaker" -> Gobreaker(chain, k, y)
         [] layer \in Tracers -> Trace(chain, k, y)
         [] layer = "logging" -> EndpointLogging(chain, k, y)

\* other orders of wrapping: logging applied first; breaker applied before limiter
ServerChainLoggingInnermost ==
    <<"endpoint", "logging", "limiter", "breaker", "opentracing", "zipkin">>
ServerChainLimiterOutside ==
    <<"endpoint", "breaker", "limiter", "opentracing", "zipkin", "logging">>
\* endpoints.New: each assignment wraps the endpoint built so far
ServerChain ==
    <<"endpoint", "limiter", "breaker", "opentracing", "zipkin", "logging">>

\* NewGRPCClient, the same for sumEndpoint and concatEndpoint
ClientChain == <<"client", "opentracing", "limiter", "breaker">>

ServerOps == {"Preamble"}
ClientOps == {"Preamble", "Concat"}

\* one breaker for both operations
BreakerOfShared(op) == "Preamble"
\* which breaker an operation's endpoint closes over: its own
BreakerOf(op) == op

Fresh(t, cb, svc, msg, outcome) ==
    [tokens |-> t, cb |-> cb, svc |-> svc, msg |-> msg, outcome |-> outcome,
     err |-> Nil, resp |-> [Rs |-> 0, Err |-> Nil], rs |-> 0,
     trail |-> <<>>, logs |-> <<>>, spans |-> <<>>, invoked |-> FALSE]

NoCall ==
    [op |-> "none", msg |-> 0, err |-> Nil, resp |-> [Rs |-> 0, Err |-> Nil],
     trail |-> <<>>, logs |-> <<>>, spans |-> <<>>, invoked |-> FALSE,
     pre |-> Rebase(NewCircuitBreaker(ServerSettings)), others |-> TRUE]

\* limiter decisions since the bucket was last full
NoRun == [active |-> FALSE, admitted |-> 0, rejected |-> 0]
FullRun == [active |-> TRUE, admitted |-> 0, rejected |-> 0]
Counted(r, x) ==
    IF ~r.active \/ ~("limiter" \in {x.trail[i] : i \in 1..Len(x.trail)}) THEN r
    ELSE IF x.err = ErrLimited
    THEN [r EXCEPT !.rejected = Min(@ + 1, 2)]
    ELSE [r EXCEPT !.admitted = @ + 1]

\* consecutive failures of the Service: a call that does not reach it changes nothing
FailuresInARow(n, x) ==
    IF ~x.invoked THEN n
    ELSE IF x.err = Nil THEN 0 ELSE Min(n + 1, TripCount)

\* what is remembered of a call: its results, and the breaker as it was before
Seen(op, x, pre, others) ==
    [op |-> op, msg |-> x.msg, err |-> x.err, resp |-> x.resp, trail |-> x.trail,
     logs |-> x.logs, spans |-> x.spans, invoked |-> x.invoked,
     pre |-> pre, others |-> others]

Outcomes(svc) == IF svc = SvcNew THEN {Ok} ELSE {Ok, Fail}

InitPipe(p) ==
    /\ pipeline = p
    /\ tokens = Burst
    /\ last = NoCall
    /\ run = FullRun
    /\ failRun = 0
    /\ IF p = "server"
       THEN /\ svcImpl \in {SvcNew, SvcOther}
            /\ cbs = [o \in ServerOps |-> Rebase(NewCircuitBreaker(ServerSettings))]
       ELSE /\ svcImpl = "remote"
            /\ cbs = [o \in ClientOps |-> Rebase(NewCircuitBreaker(ClientSettings))]

IdlePipe ==
    /\ svcImpl = "none"
    /\ tokens = 0
    /\ cbs = <<>>
    /\ last = NoCall
    /\ run = NoRun
    /\ failRun = 0
IdleConc ==
    /\ ccb = Rebase(NewCircuitBreaker(ServerSettings))
    /\ callers = <<>>
    /\ obs = <<>>
IdleEnc ==
    /\ encIn = NilError
    /\ encOut = NilError
    /\ encTwice = NilError
    /\ encPc = 0

\* a call of the server's PreambleEndpoint
ServerCall ==
    /\ pipeline = "server"
    /\ \E msg \in Msgs, outcome \in Outcomes(svcImpl) :
         LET b == BreakerOf("Preamble")
             r == Invoke(ServerChain, Len(ServerChain),
                         Fresh(tokens, cbs[b], svcImpl, msg, outcome))
         IN /\ tokens' = r.tokens
            /\ cbs' = [cbs EXCEPT ![b] = Rebase(r.cb)]
            /\ last' = Seen("Preamble", r, cbs[b], TRUE)
            /\ run' = Counted(run, r)
            /\ failRun' = FailuresInARow(failRun, r)
    /\ UNCHANGED <<pipeline, svcImpl>>
    /\ UNCHANGED concVars
    /\ UNCHANGED encVars

\* a call of one of the client's endpoints
ClientCall ==
    /\ pipeline = "client"
    /\ \E op \in ClientOps, outcome \in {Ok, Fail} :
         LET b == BreakerOf(op)
             r == Invoke(ClientChain, Len(ClientChain),
                         Fresh(tokens, cbs[b], svcImpl, 0, outcome))
             new == [cbs EXCEPT ![b] = Rebase(r.cb)]
         IN /\ tokens' = r.tokens
            /\ cbs' = new
            /\ last' = Seen(op, r, cbs[b],
                            \A o \in ClientOps \ {op} : new[o] = cbs[o])
            /\ run' = Counted(run, r)
    /\ UNCHANGED <<pipeline, svcImpl, failRun>>
    /\ UNCHANGED concVars
    /\ UNCHANGED encVars

\* the clock steps: the server's by one refill interval (a second), the
\* client's by ClientStep seconds
StepOf(p) == IF p = "server" THEN RefillInterval ELSE ClientStep

\* time passes
Tick ==
    /\ pipeline \in {"server", "client"}
    /\ tokens' = Refill(tokens, StepOf(pipeline))
    /\ cbs' = [o \in DOMAIN cbs |-> Elapse(cbs[o], StepOf(pipeline))]
    /\ last' = NoCall
    /\ run' = IF Refill(tokens, StepOf(pipeline)) = Burst THEN FullRun ELSE NoRun
    /\ UNCHANGED <<pipeline, svcImpl, failRun>>
    /\ UNCHANGED concVars
    /\ UNCHANGED encVars

----------------------------------------------------------------------------
(* Concurrent calls through one Gobreaker middleware (the server's breaker). *)
(* cb.Execute takes the breaker's mutex in beforeRequest and again in        *)
(* afterRequest; the wrapped endpoint runs between the two, unlocked.        *)

Callers == 1..NumCallers
Idle == [pc |-> "idle", gen |-> 0]

\* calls in flight keep generation 0 while theirs is the breaker's current one
Aged(cs, cb) ==
    [c \in DOMAIN cs |->
        IF cs[c].pc = "in" /\ cb.generation # 0 THEN [cs[c] EXCEPT !.gen = -1]
        ELSE cs[c]]

NoObs == [fails |-> 0, succeeded |-> FALSE, opens |-> 0, reopened |-> FALSE,
          err |-> Nil, trials |-> 0]

Opened(old, new) == old.state # StateOpen /\ new.state = StateOpen
LeftOpen(old, new) == old.state = StateOpen /\ new.state # StateOpen

Watched(o, old, new) ==
    [o EXCEPT !.opens = IF Opened(old, new) THEN Min(@ + 1, 2) ELSE @,
              !.reopened = @ \/ LeftOpen(old, new),
              !.trials = IF new.state # StateHalfOpen THEN 0 ELSE @]

InitConc ==
    /\ pipeline = "conc"
    /\ IdlePipe
    /\ ccb = Rebase(NewCircuitBreaker(ServerSettings))
    /\ callers = [c \in Callers |-> Idle]
    /\ obs = NoObs
    /\ IdleEnc

\* Gobreaker, first half: cb.beforeRequest()
ConcBegin(c) ==
    /\ pipeline = "conc"
    /\ callers[c].pc = "idle"
    /\ LET b == beforeRequest(ccb)
           o == Watched(obs, ccb, b.cb)
       IN /\ ccb' = Rebase(b.cb)
          /\ callers' = [Aged(callers, b.cb) EXCEPT
                            ![c] = IF b.err = Nil THEN [pc |-> "in", gen |-> 0] ELSE Idle]
          /\ obs' = [o EXCEPT !.err = b.err,
                              !.trials = IF b.err = Nil /\ b.cb.state = StateHalfOpen
                                         THEN Min(@ + 1, CountCap) ELSE @]
    /\ UNCHANGED pipeVars
    /\ UNCHANGED encVars

\* Gobreaker, second half: the wrapped endpoint has returned; cb.afterRequest()
ConcEnd(c) ==
    /\ pipeline = "conc"
    /\ callers[c].pc = "in"
    /\ \E outcome \in {Ok, Fail} :
         LET a == afterRequest(ccb, callers[c].gen, outcome = Ok)
             o == Watched(obs, ccb, a)
         IN /\ ccb' = Rebase(a)
            /\ callers' = [Aged(callers, a) EXCEPT ![c] = Idle]
            /\ obs' = [o EXCEPT !.err = IF outcome = Ok THEN Nil ELSE ErrBusiness,
                                !.fails = IF outcome = Fail THEN Min(@ + 1, FailCap) ELSE @,
                                !.succeeded = @ \/ outcome = Ok]
    /\ UNCHANGED pipeVars
    /\ UNCHANGED encVars

\* a second passes
ConcTick ==
    /\ pipeline = "conc"
    /\ ccb' = Elapse(ccb, RefillInterval)
    /\ obs' = [obs EXCEPT !.err = Nil]
    /\ UNCHANGED callers
    /\ UNCHANGED pipeVars
    /\ UNCHANGED encVars

NextConc == (\E c \in Callers : ConcBegin(c)) \/ (\E c \in Callers : ConcEnd(c)) \/ ConcTick
SpecConc == InitConc /\ [][NextConc]_vars

----------------------------------------------------------------------------
(* grpcEncodeError applied to an error, and again to its result, as         *)
(* encodeGRPCPreambleResponse and then grpcServer.Preamble do.              *)

InitEncode ==
    /\ pipeline = "encode"
    /\ IdlePipe
    /\ IdleConc
    /\ encIn \in Errors
    /\ encOut = NilError
    /\ encTwice = NilError
    /\ encPc = 0

EncodeResponse ==
    /\ pipeline = "encode"
    /\ encPc = 0
    /\ encOut' = grpcEncodeError(encIn)
    /\ encPc' = 1
    /\ UNCHANGED <<encIn, encTwice>>
    /\ UNCHANGED pipeVars
    /\ UNCHANGED concVars

EncodeAgain ==
    /\ pipeline = "encode"
    /\ encPc = 1
    /\ encTwice' = grpcEncodeError(encOut)
    /\ encPc' = 2
    /\ UNCHANGED <<encIn, encOut>>
    /\ UNCHANGED pipeVars
    /\ UNCHANGED concVars

NextEncode == EncodeResponse \/ EncodeAgain
SpecEncode == InitEncode /\ [][NextEncode]_vars

----------------------------------------------------------------------------
(* Specifications of the pipelines *)

InitServer == InitPipe("server") /\ IdleConc /\ IdleEnc
InitClient == InitPipe("client") /\ IdleConc /\ IdleEnc
Init == (InitPipe("server") \/ InitPipe("client")) /\ IdleConc /\ IdleEnc

NextServer == ServerCall \/ Tick
NextClient == ClientCall \/ Tick
Next == ServerCall \/ ClientCall \/ Tick

SpecServer == InitServer /\ [][NextServer]_vars
SpecClient == InitClient /\ [][NextClient]_vars
Spec == Init /\ [][Next]_vars

\* the server pipeline together with concurrent calls through its breaker
InitBreaker == InitServer \/ InitConc
NextBreaker == NextServer \/ NextConc
SpecBreaker == InitBreaker /\ [][NextBreaker]_vars

----------------------------------------------------------------------------
(* Properties *)

Called == last.op # "none"
Layers == {last.trail[i] : i \in 1..Len(last.trail)}
Pos(l) == CHOOSE i \in 1..Len(last.trail) : last.trail[i] = l
Before(a, b) == (a \in Layers /\ b \in Layers) => Pos(a) < Pos(b)
Innermost == last.trail[Len(last.trail)]
IsPrefix(t, u) == Len(t) <= Len(u) /\ \A i \in 1..Len(t) : t[i] = u[i]
Entries(e) == {i \in 1..Len(last.logs) : last.logs[i][2] = e}
Own == cbs[last.op]
Server == pipeline = "server"
Client == pipeline = "client"
Conc == pipeline = "conc"
Cooling(cb) == cb.state = StateOpen /\ ~Expired(cb)
Tripped(cb, timeout) == cb.state = StateOpen /\ cb.expiry = <<timeout>>

\* C2: every failing call of the endpoint built by MakePreambleEndpoint returns
\* the error both in the Response's error field and as the second return value.
C2_FailureChannelsAgree ==
    (Server /\ Called /\ "endpoint" \in Layers /\ last.err # Nil)
        => last.resp.Err = last.err

\* C3 as stated: a server call passes tracing, then rate limiting, then circuit
\* breaking, then logging; a call rejected by the limiter or by the open breaker
\* is seen by tracing and never reaches the endpoint-level logging middleware.
C3_TracingLimiterBreakerLogging ==
    (Server /\ Called) =>
        /\ \A t \in Tracers : Before(t, "limiter")
        /\ Before("limiter", "breaker")
        /\ Before("breaker", "logging")
        /\ last.err \in Rejections => (Tracers \subseteq Layers /\ "logging" \notin Layers)

\* C3 as amended: a server call passes logging, then zipkin tracing, then
\* opentracing tracing, then circuit breaking, then rate limiting, and only then
\* the endpoint; a call rejected by the open breaker stops at the breaker, one
\* rejected by the limiter stops at the limiter, and both are seen by the two
\* tracers and logged (once) by the endpoint-level logging middleware.
C3_LoggingTracingBreakerLimiter ==
    (Server /\ Called) =>
        /\ IsPrefix(<<"logging", "zipkin", "opentracing", "breaker">>, last.trail)
        /\ IsPrefix(last.trail, <<"logging", "zipkin", "opentracing", "breaker",
                                  "limiter", "endpoint", "service.logging", "stub">>)
           \/ IsPrefix(last.trail, <<"logging", "zipkin", "opentracing", "breaker",
                                     "limiter", "endpoint", "other">>)
        /\ last.err \in {ErrOpenState, ErrTooManyRequests} => Innermost = "breaker"
        /\ last.err = ErrLimited => Innermost = "limiter"
        /\ last.err \in Rejections =>
              /\ last.spans = <<<<"opentracing", last.err>>, <<"zipkin", last.err>>>>
              /\ last.logs = <<<<"logging", last.err>>>>

C3_RejectedCallLogged ==
    /\ Server /\ Called
    /\ last.err = ErrLimited
    /\ last.logs = <<<<"logging", ErrLimited>>>>
    /\ last.trail = <<"logging", "zipkin", "opentracing", "breaker", "limiter">>

\* C4: after TripCount consecutive Service failures the breaker is Open; a call
\* made while it is Open and cooling down fails with ErrOpenState, does not reach
\* the Service and leaves the breaker as it was; once the cooldown has elapsed a
\* call is let through as the trial, its success closes the breaker and its
\* failure opens it again for a full timeout; and while the breaker is HalfOpen
\* at most one call (MaxRequests) is inside it, every other caller being turned
\* away with ErrTooManyRequests.
C4_BreakerLifecycle ==
    /\ (Server /\ Called /\ last.invoked /\ last.err # Nil /\ failRun >= TripCount)
          => Tripped(Own, DefaultTimeout)
    /\ (Server /\ Called /\ Cooling(last.pre))
          => /\ last.err = ErrOpenState
             /\ ~last.invoked
             /\ Innermost = "breaker"
             /\ Own = last.pre
    /\ (Server /\ Called /\ last.pre.state = StateOpen /\ Expired(last.pre))
          => /\ "limiter" \in Layers
             /\ last.err = Nil => Own.state = StateClosed
             /\ last.err # Nil => Tripped(Own, DefaultTimeout)
    /\ (Server /\ Called /\ last.err = ErrOpenState) => Cooling(last.pre)
    /\ (Conc /\ ccb.state = StateHalfOpen)
          => /\ obs.trials <= DefaultMaxRequests
             /\ Cardinality({c \in Callers : callers[c].pc = "in" /\ callers[c].gen = 0})
                   = obs.trials
    /\ (Conc /\ obs.err = ErrTooManyRequests)
          => ccb.state = StateHalfOpen /\ obs.trials = DefaultMaxRequests
    /\ (Conc /\ obs.err = ErrOpenState) => Cooling(ccb)

C4_SecondCallerTurnedAway ==
    /\ Conc
    /\ ccb.state = StateHalfOpen
    /\ obs.err = ErrTooManyRequests
    /\ obs.fails >= TripCount
    /\ obs.trials = 1

\* C5: in either pipeline, starting from a full bucket of Burst tokens, Burst + 1
\* limiter decisions with no time passing give exactly one rejection (and none
\* before the bucket is empty); a rejected call stops at the limiter without
\* reaching the wrapped endpoint or the Service, and happens only with an empty
\* bucket; after a refill interval the bucket holds a token, so the next call
\* reaching the limiter is admitted.
C5_LimiterAdmission ==
    (Server \/ Client) =>
        /\ run.active => run.admitted + tokens = Burst
        /\ (run.active /\ run.admitted + run.rejected <= Burst) => run.rejected = 0
        /\ (run.active /\ run.admitted + run.rejected = Burst + 1) => run.rejected = 1
        /\ (Called /\ last.err = ErrLimited)
              => /\ tokens = 0
                 /\ Innermost = "limiter"
                 /\ Layers \cap {"endpoint", "client"} = {}
                 /\ ~last.invoked
        /\ (Called /\ "limiter" \in Layers /\ last.err # ErrLimited)
              => Layers \cap {"endpoint", "client"} # {}
        /\ ~Called => tokens >= 1

C5_OneRejectionAfterBurst ==
    /\ Server
    /\ run.active /\ run.admitted = Burst /\ run.rejected = 1
    /\ Called /\ last.err = ErrLimited

\* C6: grpcEncodeError maps nil to nil, an error carrying a status to an error
\* with the same code and message, any other error to Internal with the fixed
\* message, and applying it to its own result changes neither code nor message.
C6_EncodeErrorIdempotent ==
    /\ encPc >= 1 =>
          /\ encIn = NilError <=> encOut = NilError
          /\ encIn.kind = "status" =>
                CodeOf(encOut) = encIn.code /\ MessageOf(encOut) = encIn.msg
          /\ encIn.kind = "plain" =>
                CodeOf(encOut) = "Internal" /\ MessageOf(encOut) = InternalMessage
    /\ encPc = 2 =>
          CodeOf(encTwice) = CodeOf(encOut) /\ MessageOf(encTwice) = MessageOf(encOut)

C6_PlainErrorEncodedTwice ==
    /\ encPc = 2
    /\ encIn.kind = "plain"
    /\ encIn.msg # InternalMessage
    /\ encTwice = StatusError("Internal", InternalMessage, FALSE)

\* C7: a call through endpoints.New around the Service of service.New that ends
\* in an error has exactly one log entry carrying that error, written by the
\* endpoint-level logging middleware, the outermost logging layer.
C7_ErrorLoggedOnce ==
    (Server /\ svcImpl = SvcNew /\ Called /\ last.err # Nil) =>
        /\ Cardinality(Entries(last.err)) = 1
        /\ \A i \in Entries(last.err) : last.logs[i][1] = "logging"
        /\ last.trail[1] = "logging"

C7_BreakerRejectionLogged ==
    /\ Server /\ svcImpl = SvcNew /\ Called
    /\ last.err = ErrOpenState
    /\ last.logs = <<<<"logging", ErrOpenState>>>>

\* C8: while every concurrent call fails and the breaker has not yet left Open,
\* the breaker is Open exactly when TripCount failures have been seen, it has
\* entered Open exactly once by then and never before, and while it is Closed
\* its failure counter equals the number of failures seen (no update is lost).
C8_OpenAtThresholdOnce ==
    (Conc /\ ~obs.succeeded /\ ~obs.reopened) =>
        /\ ccb.state = StateOpen <=> obs.fails >= TripCount
        /\ ccb.state # StateOpen => ccb.state = StateClosed
        /\ ccb.state = StateClosed => ccb.counts.ConsecutiveFailures = obs.fails
        /\ obs.opens = IF obs.fails >= TripCount THEN 1 ELSE 0

C8_LateFailuresDropped ==
    /\ Conc /\ ~obs.succeeded /\ ~obs.reopened
    /\ ccb.state = StateOpen
    /\ obs.fails > TripCount
    /\ obs.opens = 1

\* C9: the client's operations draw on one limiter (every admitted call, of
\* either operation, takes a token of the same bucket, and a call is denied only
\* when that bucket is empty); each operation has its own breaker, which opens
\* for 30 seconds; a call of one operation leaves the other operation's breaker
\* untouched, and a call is turned away by a breaker only when its own
\* operation's breaker is Open.
C9_SharedLimiterOwnBreakers ==
    (Client) =>
        /\ run.active => run.admitted + tokens = Burst
        /\ (Called /\ last.err = ErrLimited) => tokens = 0
        /\ Called => last.others
        /\ (Called /\ last.err \in {ErrOpenState, ErrTooManyRequests}) => Cooling(Own)
        /\ (Called /\ Cooling(last.pre)) => last.err = ErrOpenState
        /\ (Called /\ Own.state = StateOpen /\ ~Cooling(last.pre)) => Tripped(Own, 30)
        /\ \A o \in ClientOps : cbs[o].state = StateOpen => cbs[o].expiry[1] <= 30

C9_ConcatServedWhilePreambleOpen ==
    /\ Client /\ Called
    /\ last.op = "Concat" /\ last.err = Nil
    /\ Cooling(cbs["Preamble"])
    /\ cbs["Concat"].state = StateClosed

\* C10 as stated: a call denied by the rate limiter leaves the breaker's state and
\* failure counters unchanged, in the server and in the client pipeline.
C10_RejectionLeavesBreakerAlone ==
    (Called /\ last.err = ErrLimited) => Own = last.pre

\* C10 as amended: in both pipelines the breaker wraps the limiter, so a call
\* denied by the limiter has passed the breaker first and is recorded by it as
\* a failure: a Closed breaker counts one more consecutive failure and opens at
\* the sixth, and a denied half-open trial opens the breaker again.
C10_RejectionCountsAsFailure ==
    (Called /\ last.err = ErrLimited) =>
        /\ Before("breaker", "limiter")
        /\ {"breaker", "limiter"} \subseteq Layers
        /\ last.pre.state = StateClosed =>
              IF last.pre.counts.ConsecutiveFailures + 1 >= TripCount
              THEN Tripped(Own, Own.timeout)
              ELSE /\ Own.state = StateClosed
                   /\ Own.counts.ConsecutiveFailures
                         = last.pre.counts.ConsecutiveFailures + 1
        /\ last.pre.state = StateOpen => Tripped(Own, Own.timeout)

C10_RejectionsOpenBreaker ==
    /\ Called /\ last.err = ErrLimited
    /\ last.pre.state = StateClosed
    /\ Own.state = StateOpen
    /\ failRun = 0
====
